---- MODULE Spec2Model ----
(***************************************************************************)
(* State-transition-operator engine of CompartmentalSystems                *)
(* (SmoothModelRun): the grid cache (build / save / load), the three Phi   *)
(* query strategies and the inverse memo of the skew-product strategy;     *)
(* and the block system builder BlockIvp (construction, the composed       *)
(* right-hand side, the block name check); and the objects of a caller:   *)
(* the reservoir model made by from_B_u with its way back to the matrix,   *)
(* and model runs with sol_funcs, external_input_vector_func, linearize.   *)
(*                                                                         *)
(* Numbers.  The modelled system is the two-pool linear test system        *)
(* B = diag(-k_0, -k_1).  Its propagator is diagonal, so a matrix is kept  *)
(* as the tuple of its diagonal entries and a vector as the tuple of its   *)
(* components.  An entry is a pair <<sign, log>>: <<1, a>> is exp(a),      *)
(* <<0, 0>> is 0.0 and <<-1, 0>> is a (slightly) negative number.  Times   *)
(* are integer ticks.                                                      *)
(***************************************************************************)
EXTENDS Integers, Sequences, FiniteSets, TLC

VARIABLES times, state_transition_operator_values, cache_size, attrs,
          skewPhiCache, files, last, ivp, block_call,
          model, func_sets, smrs, run_call

vars == <<times, state_transition_operator_values, cache_size, attrs,
          skewPhiCache, files, last, ivp, block_call,
          model, func_sets, smrs, run_call>>

\* the state of the engine and of the block system builder
engineVars == <<times, state_transition_operator_values, cache_size, attrs,
                skewPhiCache, files, last, ivp, block_call>>

\* the reservoir model of a caller, the func_set dictionaries (by
\* reference), the model runs and the last call on them
runVars == <<model, func_sets, smrs, run_call>>

(* ----------------------------- bounds --------------------------------- *)
\* largest cache size handed to build_state_transition_operator_cache
MaxSize == 3

RECURSIVE SqProd(_)
SqProd(k) == IF k <= 1 THEN 1 ELSE k * k * SqProd(k - 1)

\* end of the trajectory span in ticks; divisible by 8 (nc-1)^2 for every
\* cache size nc <= MaxSize, so that every grid point, every sub-grid point
\* and every query time is an integer tick
TEnd == 8 * SqProd(MaxSize - 1)

\* first point of the trajectory span
TStart == 0

(* ------------------------- the test system ---------------------------- *)
nr_pools == 2
Pools == 1..nr_pools
k_0_val == 1
k_1_val == 2
k_val(i) == IF i = 1 THEN k_0_val ELSE k_1_val

Zero == <<0, 0>>
Neg == <<-1, 0>>
Pos(a) == <<1, a>>

\* x omitted (x=None), table not built (None), no result, no file
None == <<>>

\* exact value of exp(-k_i (t - s)) * c, the solution of dy/dtau = B y
Propagate(i, t, s, c) == IF c[1] = 1 THEN <<1, c[2] - k_val(i) * (t - s)>> ELSE c

Mul(a, b) == IF a[1] * b[1] = 0 THEN Zero
             ELSE IF a[1] * b[1] < 0 THEN Neg
             ELSE <<1, a[2] + b[2]>>

\* np.matmul / np.dot of two diagonal matrices, or of one with a vector
matmul(A, B) == [i \in Pools |-> Mul(A[i], B[i])]

identity == [i \in Pools |-> Pos(0)]
zeros == [i \in Pools |-> Zero]

\* np.linalg.inv raises LinAlgError on a singular matrix
Singular(M) == \E i \in Pools : M[i][1] = 0
inv(M) == [i \in Pools |-> <<M[i][1], 0 - M[i][2]>>]

\* variant: the right-hand side comes back unsolved
solve_returning_rhs(A, x) == x

\* np.linalg.solve(A, x): the w with A w = x
solve(A, x) == [i \in Pools |-> IF x[i][1] = 0 THEN Zero
                                ELSE IF A[i][1] * x[i][1] < 0 THEN Neg
                                ELSE <<1, x[i][2] - A[i][2]>>]

\* np.maximum(soln, np.zeros_like(soln))
maximum0(v) == [i \in Pools |-> IF v[i][1] < 0 THEN Zero ELSE v[i]]

\* the numerical integrator: the exact solution, except that the components
\* named in eps overshoot to a negative value
solve_ivp(s, t, y0, eps) ==
  [i \in Pools |-> IF i \in eps THEN Neg ELSE Propagate(i, t, s, y0[i])]

Noise == {{}, {1}}

(* --------------------------- time grids ------------------------------- *)
RECURSIVE SeqMin(_)
SeqMin(sq) == IF Len(sq) = 1 THEN sq[1]
              ELSE LET m == SeqMin(Tail(sq)) IN IF sq[1] < m THEN sq[1] ELSE m

\* np.linspace(a, b, n)[i], 0-based
linspace(a, b, n, i) == a + (i * (b - a)) \div (n - 1)

\* variant: the first index whose grid point is > v (side='right')
searchsorted_right(a, b, n, v) ==
  LET hit == {i \in 0..(n - 1) : linspace(a, b, n, i) > v}
  IN IF hit = {} THEN n ELSE CHOOSE i \in hit : \A j \in hit : i <= j

\* cached_times.searchsorted(v): first index whose grid point is >= v
searchsorted(a, b, n, v) ==
  LET hit == {i \in 0..(n - 1) : linspace(a, b, n, i) >= v}
  IN IF hit = {} THEN n ELSE CHOOSE i \in hit : \A j \in hit : i <= j

\* np.all(a == b) on two one-dimensional arrays
GridsMatch(a, b) ==
  IF Len(a) = Len(b) THEN \A i \in 1..Len(a) : a[i] = b[i]
  ELSE IF Len(b) = 1 THEN \A i \in 1..Len(a) : a[i] = b[1]
  ELSE IF Len(a) = 1 THEN \A i \in 1..Len(b) : a[1] = b[i]
  ELSE FALSE

\* time grids as numpy.linspace makes them, and grids that hold one time
\* point only, once or twice
Grids == { <<TStart, TEnd>>, <<TStart, TEnd \div 2, TEnd>> }
SinglePointGrids == { <<TStart>>, <<TStart, TStart>> }

\* the times at which queries are posed
QueryTimes == {TStart - 1, TStart, TEnd \div 4, (7 * TEnd) \div 8, TEnd, TEnd + 1}

XS == { <<Pos(0), Pos(0)>>, <<Zero, Pos(0)>> }

(* --------------------- _linearized_no_input_sol ----------------------- *)
\* sol(times, start_vector): no integration when start and end coincide
sol(s, t, sv, eps) ==
  IF s = t THEN [val |-> sv, n |-> 0, span |-> <<>>]
  ELSE [val |-> solve_ivp(s, t, sv, eps), n |-> 1, span |-> << <<s, t>> >>]

(* ---------------- build_state_transition_operator_cache ---------------- *)
\* the value the inner loop stores in ca[tm1_index, j, i, i]: e_i advanced
\* step by step through the sub-grid linspace(tm1, t_max, nc)
RECURSIVE BuildEntry(_, _, _, _, _, _)
BuildEntry(i, tm1, t_max, nc, j, eps) ==
  LET sub(m) == linspace(tm1, t_max, nc, m)
      st == IF j = 0 THEN tm1 ELSE sub(j - 1)
      sv == IF j = 0 THEN [p \in Pools |-> IF p = i THEN Pos(0) ELSE Zero]
            ELSE [p \in Pools |-> IF p = i
                                  THEN BuildEntry(i, tm1, t_max, nc, j - 1, eps)
                                  ELSE Zero]
  IN sol(st, sub(j), sv, eps).val[i]

\* variant: column j holds the value that belongs to column j + 1
BuildTableShifted(grid, nc, eps) ==
  LET t_min == grid[1]
      t_max == grid[Len(grid)]
  IN [r \in 1..nc |->
       [c \in 1..nc |->
         IF r = nc THEN zeros
         ELSE [i \in Pools |->
                BuildEntry(i, linspace(t_min, t_max, nc, r - 1), t_max, nc,
                           IF c < nc THEN c ELSE c - 1, eps)]]]

\* variant: every row is filled along the main grid, from t_min
BuildTableFromGridStart(grid, nc, eps) ==
  LET t_min == grid[1]
      t_max == grid[Len(grid)]
  IN [r \in 1..nc |->
       [c \in 1..nc |->
         IF r = nc THEN zeros
         ELSE [i \in Pools |-> BuildEntry(i, t_min, t_max, nc, c - 1, eps)]]]

\* ca after the loops: rows 0..nc-2 filled, row nc-1 left at np.zeros
BuildTable(grid, nc, eps) ==
  LET t_min == grid[1]
      t_max == grid[Len(grid)]
  IN [r \in 1..nc |->
       [c \in 1..nc |->
         IF r = nc THEN zeros
         ELSE [i \in Pools |->
                BuildEntry(i, linspace(t_min, t_max, nc, r - 1), t_max, nc, c - 1, eps)]]]

(* -------------------------- call outcomes ----------------------------- *)
\* what a call did: how it ended, what it returned, how many numerical
\* integrations it dispatched, whether it read the grid table or the cache
\* size, and the return path it took
\* no grid cell was looked at
NoCell == [tm1_ind |-> -1, tm1 |-> 0, tm2_ind |-> -1, tm2 |-> 0, step_size |-> 0]

Ret(outcome, result, nInt, tableRead, sizeRead, path) ==
  [outcome |-> outcome, result |-> result, nInt |-> nInt,
   tableRead |-> tableRead, sizeRead |-> sizeRead, path |-> path,
   spans |-> <<>>, cell |-> NoCell]

\* the same, with the intervals handed to the integrator, in call order, and
\* the indices and times of the grid cell the call worked with
Integrated(r, spans, cell) == [r EXCEPT !.spans = spans, !.cell = cell]

(* --------------------------- check_phi_args --------------------------- *)
check_phi_args(t, s) ==
  LET t_0 == SeqMin(times)
  IN ~(t < t_0) /\ ~(s < t_0)

(* ---------------------- _state_transition_operator -------------------- *)
\* variant: the branch reads the cache size although there is no cache
sto_without_cache_reading_size(t, t0, x, eps) ==
  LET r == sol(t0, t, x, eps)
  IN Ret("ok", maximum0(r.val), r.n, FALSE, TRUE, "direct")

\* the branch taken while the cache has not been created
sto_without_cache(t, t0, x, eps) ==
  LET r == sol(t0, t, x, eps)
  IN Integrated(Ret("ok", maximum0(r.val), r.n, FALSE, FALSE, "direct"), r.span, NoCell)

\* variant: the step of the lookup is the cell of the main grid
sto_with_cache_main_grid_step(t, t0, x, eps) ==
  LET t_min == times[1]
      t_max == times[Len(times)]
      nc == cache_size
      ca == state_transition_operator_values
      tm1_ind == searchsorted(t_min, t_max, nc, t0)
      tm1 == linspace(t_min, t_max, nc, tm1_ind)
      at == [NoCell EXCEPT !.tm1_ind = tm1_ind, !.tm1 = tm1]
  IN IF tm1_ind >= nc
     THEN Integrated(Ret("IndexError", None, 0, FALSE, TRUE, "raise"), <<>>,
                     [NoCell EXCEPT !.tm1_ind = tm1_ind])
     ELSE IF t <= tm1
     THEN LET r == sol(t0, t, x, eps)
          IN Integrated(Ret("ok", r.val, r.n, FALSE, TRUE, "early"), r.span, at)
     ELSE
       LET y == sol(t0, tm1, x, eps)
           step_size == (t_max - t_min) \div (nc - 1)
       IN IF step_size > 0
          THEN LET fl == (t - tm1) \div step_size
                   tm2_ind == IF fl < nc - 1 THEN fl ELSE nc - 1
                   tm2 == tm1 + tm2_ind * step_size
                   B == ca[tm1_ind + 1][tm2_ind + 1]
                   z == matmul(B, y.val)
                   r == sol(tm2, t, z, eps)
               IN Integrated(Ret("ok", maximum0(r.val), y.n + r.n, TRUE, TRUE, "grid"),
                             y.span \o r.span,
                             [at EXCEPT !.tm2_ind = tm2_ind, !.tm2 = tm2,
                                        !.step_size = step_size])
          ELSE LET r == sol(tm1, t, y.val, eps)
               IN Integrated(Ret("ok", maximum0(r.val), y.n + r.n, FALSE, TRUE, "last_cell"),
                             y.span \o r.span, [at EXCEPT !.tm2 = tm1])

\* the branch that uses the already created cache
sto_with_cache(t, t0, x, eps) ==
  LET t_min == times[1]
      t_max == times[Len(times)]
      nc == cache_size
      ca == state_transition_operator_values
      tm1_ind == searchsorted(t_min, t_max, nc, t0)
      tm1 == linspace(t_min, t_max, nc, tm1_ind)
      at == [NoCell EXCEPT !.tm1_ind = tm1_ind, !.tm1 = tm1]
  IN IF tm1_ind >= nc
     THEN Integrated(Ret("IndexError", None, 0, FALSE, TRUE, "raise"), <<>>,
                     [NoCell EXCEPT !.tm1_ind = tm1_ind])
     ELSE IF t <= tm1
     THEN LET r == sol(t0, t, x, eps)
          IN Integrated(Ret("ok", r.val, r.n, FALSE, TRUE, "early"), r.span, at)
     ELSE
       LET y == sol(t0, tm1, x, eps)
           step_size == (t_max - tm1) \div (nc - 1)
       IN IF step_size > 0
          THEN LET fl == (t - tm1) \div step_size
                   tm2_ind == IF fl < nc - 1 THEN fl ELSE nc - 1
                   tm2 == tm1 + tm2_ind * step_size
                   B == ca[tm1_ind + 1][tm2_ind + 1]
                   z == matmul(B, y.val)
                   r == sol(tm2, t, z, eps)
               IN Integrated(Ret("ok", maximum0(r.val), y.n + r.n, TRUE, TRUE, "grid"),
                             y.span \o r.span,
                             [at EXCEPT !.tm2_ind = tm2_ind, !.tm2 = tm2,
                                        !.step_size = step_size])
          ELSE LET r == sol(tm1, t, y.val, eps)
               IN Integrated(Ret("ok", maximum0(r.val), y.n + r.n, FALSE, TRUE, "last_cell"),
                             y.span \o r.span, [at EXCEPT !.tm2 = tm1])

state_transition_operator(t, t0, x, eps) ==
  IF t0 > t THEN Ret("Error", None, 0, FALSE, FALSE, "raise")
  ELSE IF t0 = t THEN Ret("ok", x, 0, FALSE, FALSE, "identity")
  ELSE IF state_transition_operator_values = None
  THEN sto_without_cache(t, t0, x, eps)
  ELSE sto_with_cache(t, t0, x, eps)

(* ---------- _state_transition_operator_by_direct_integration ---------- *)
\* variant: the s == t shortcut is missing
direct_integration_vec_without_shortcut(t, s, x, eps) ==
  IF ~check_phi_args(t, s) THEN Ret("Error", None, 0, FALSE, FALSE, "raise")
  ELSE Ret("ok", solve_ivp(s, t, x, eps), 1, FALSE, FALSE, "direct")

state_transition_operator_by_direct_integration_vec(t, s, x, eps) ==
  IF ~check_phi_args(t, s) THEN Ret("Error", None, 0, FALSE, FALSE, "raise")
  ELSE IF s = t THEN Ret("ok", x, 0, FALSE, FALSE, "identity")
  ELSE Ret("ok", solve_ivp(s, t, x, eps), 1, FALSE, FALSE, "direct")

state_transition_operator_by_direct_integration(t, s, x, eps) ==
  IF x # None
  THEN state_transition_operator_by_direct_integration_vec(t, s, x, eps)
  ELSE IF ~check_phi_args(t, s) THEN Ret("Error", None, 0, FALSE, FALSE, "raise")
  ELSE IF s = t THEN Ret("ok", identity, 0, FALSE, FALSE, "identity")
  ELSE Ret("ok", solve_ivp(s, t, identity, eps), 1, FALSE, FALSE, "direct")

(* -------- _state_transition_operator_by_skew_product_system ----------- *)
\* Phi_t0_mat(t): the dense solution Phi(t, t_0) of the augmented system,
\* defined on the span [t_0, t_max] of the ivp
InSpan(t) == SeqMin(times) <= t /\ t <= times[Len(times)]
Phi_t0_mat(t) == [i \in Pools |-> Pos(0 - k_val(i) * (t - SeqMin(times)))]

\* variant: the inverse is computed on every call and never stored
my_inv_without_store(cache, key, mat) ==
  IF Singular(mat) THEN [err |-> TRUE, cache |-> cache, val |-> None, nInv |-> 1]
  ELSE [err |-> FALSE, cache |-> cache, val |-> inv(mat), nInv |-> 1]

\* variant: a new inverse replaces the entries stored so far
my_inv_evicting(cache, key, mat) ==
  IF key \in DOMAIN cache THEN [err |-> FALSE, cache |-> cache, val |-> cache[key], nInv |-> 0]
  ELSE IF Singular(mat) THEN [err |-> TRUE, cache |-> cache, val |-> None, nInv |-> 1]
  ELSE [err |-> FALSE, cache |-> [k \in {key} |-> inv(mat)], val |-> inv(mat), nInv |-> 1]

\* variant: the matrix itself is stored where its inverse belongs
my_inv_storing_matrix(cache, key, mat) ==
  IF key \in DOMAIN cache THEN [err |-> FALSE, cache |-> cache, val |-> cache[key], nInv |-> 0]
  ELSE IF Singular(mat) THEN [err |-> TRUE, cache |-> cache, val |-> None, nInv |-> 1]
  ELSE [err |-> FALSE,
        cache |-> [k \in DOMAIN cache \cup {key} |-> IF k = key THEN mat ELSE cache[k]],
        val |-> inv(mat), nInv |-> 1]

\* my_inv(t, mat): look the inverse up under the key t, compute and store it
\* when it is not there
my_inv(cache, key, mat) ==
  IF key \in DOMAIN cache THEN [err |-> FALSE, cache |-> cache, val |-> cache[key], nInv |-> 0]
  ELSE IF Singular(mat) THEN [err |-> TRUE, cache |-> cache, val |-> None, nInv |-> 1]
  ELSE [err |-> FALSE,
        cache |-> [k \in DOMAIN cache \cup {key} |-> IF k = key THEN inv(mat) ELSE cache[k]],
        val |-> inv(mat), nInv |-> 1]

\* the result of a skew-product call: what it returned and the attributes
\* and the memo it leaves behind
SkewRet(outcome, result, nInt, path, newAttrs, newCache, nInv) ==
  [ret |-> Ret(outcome, result, nInt, FALSE, FALSE, path),
   attrs |-> newAttrs, cache |-> newCache, nInv |-> nInv]

\* variant: the ivp object is constructed on every call
x_phi_ivp_setup_on_every_call(a) == [attrs |-> a \cup {"_x_phi_ivp"}, n |-> 1]

\* if not(hasattr(self,'_x_phi_ivp')): self._x_phi_ivp = x_phi_ivp(...);
\* n counts the objects constructed
x_phi_ivp_setup(a) ==
  IF "_x_phi_ivp" \in a THEN [attrs |-> a, n |-> 0]
  ELSE [attrs |-> a \cup {"_x_phi_ivp"}, n |-> 1]

state_transition_operator_by_skew_product_system(t, s, x) ==
  LET a1 == attrs \cup {"_skewPhiCache"}
      cache == skewPhiCache
      a2 == x_phi_ivp_setup(a1).attrs
      \* the augmented system is set up, and integrated by the first
      \* get_function call, when the ivp object is constructed
      nI == x_phi_ivp_setup(a1).n
      t_0 == SeqMin(times)
  IN
  IF ~check_phi_args(t, s) THEN SkewRet("Error", None, 0, "raise", a1, cache, 0)
  ELSE IF s = t
  THEN SkewRet("ok", IF x = None THEN identity ELSE x, 0, "identity", a1, cache, 0)
  ELSE IF ~InSpan(t) \/ ~InSpan(s)
  THEN SkewRet("ValueError", None, nI, "raise", a2, cache, 0)
  ELSE IF s > t
  THEN LET A == Phi_t0_mat(t)
           B == Phi_t0_mat(s)
       IN IF x = None
          THEN LET m == my_inv(cache, t, A)
               IN IF m.err THEN SkewRet("LinAlgError", None, nI, "raise", a2, cache, m.nInv)
                  \* Ainv is not defined
                  ELSE SkewRet("NameError", None, nI, "raise", a2, m.cache, m.nInv)
          ELSE IF t \in DOMAIN cache
               THEN SkewRet("NameError", None, nI, "raise", a2, cache, 0)
               ELSE IF Singular(A) THEN SkewRet("LinAlgError", None, nI, "raise", a2, cache, 0)
               ELSE SkewRet("ok", matmul(B, solve(A, x)), nI, "backward_solve", a2, cache, 0)
  ELSE IF s = t_0
  THEN LET mat == Phi_t0_mat(t)
       IN SkewRet("ok", IF x = None THEN mat ELSE matmul(mat, x), nI, "from_t0", a2, cache, 0)
  ELSE LET A == Phi_t0_mat(t)
           B == Phi_t0_mat(s)
       IN IF x = None
          THEN LET m == my_inv(cache, s, B)
               IN IF m.err THEN SkewRet("LinAlgError", None, nI, "raise", a2, cache, m.nInv)
                  ELSE SkewRet("ok", matmul(A, m.val), nI, "inverse", a2, m.cache, m.nInv)
          ELSE IF t \in DOMAIN cache
               THEN LET m == my_inv(cache, s, B)
                    IN IF m.err THEN SkewRet("LinAlgError", None, nI, "raise", a2, cache, m.nInv)
                       ELSE SkewRet("ok", matmul(matmul(A, m.val), x), nI, "memo",
                                    a2, m.cache, m.nInv)
               ELSE IF Singular(B) THEN SkewRet("LinAlgError", None, nI, "raise", a2, cache, 0)
               ELSE SkewRet("ok", matmul(A, solve(B, x)), nI, "solve", a2, cache, 0)

(* ------------------------------ BlockIvp ------------------------------ *)
(* A name is the tuple of its characters, each a one-character name, so    *)
(* that a string can be taken apart the way Python iterates over it.  An   *)
(* array is its shape and its elements by index tuple (0-based).           *)
X1 == <<"X", "1">>
X2 == <<"X", "2">>
Sol == <<"s", "o", "l">>
X9 == <<"X", "9">>
TimeAliases == { <<"t">>, <<"t", "i", "m", "e">> }
BlockNames == {X1, X2, Sol}
Shapes == { <<2>>, <<3, 1>>, <<2, 2>> }

\* the elements of a string taken as an iterable
Chars(name) == { <<name[i]>> : i \in 1..Len(name) }

Front(sq) == SubSeq(sq, 1, Len(sq) - 1)

\* ndarray.size
RECURSIVE Size(_)
Size(shape) == IF shape = <<>> THEN 1 ELSE shape[1] * Size(Tail(shape))

\* the position of an index tuple in the flat (row-major) order of numpy
RECURSIVE ravel(_, _)
ravel(idx, shape) ==
  IF idx = <<>> THEN 0
  ELSE ravel(Front(idx), Front(shape)) * shape[Len(shape)] + idx[Len(idx)]

\* the index tuples of an array of the given shape
RECURSIVE IndexTuples(_)
IndexTuples(shape) ==
  IF shape = <<>> THEN { <<>> }
  ELSE { <<i>> \o rest : i \in 0..(shape[1] - 1), rest \in IndexTuples(Tail(shape)) }

\* ndarray.flatten()
flatten(a) ==
  [q \in 1..Size(a.shape) |->
     a.at[CHOOSE idx \in IndexTuples(a.shape) : ravel(idx, a.shape) = q - 1]]

\* ndarray.reshape(shape) of a flat vector
reshape(v, shape) ==
  [shape |-> shape, at |-> [idx \in IndexTuples(shape) |-> v[ravel(idx, shape) + 1]]]

\* X[lower:upper]
slice(X, lower, upper) == [q \in 1..(upper - lower) |-> X[lower + q]]

RECURSIVE concatenate(_)
concatenate(vs) == IF vs = <<>> THEN <<>> ELSE vs[1] \o concatenate(Tail(vs))

\* sum(sizes[:n])
RECURSIVE SumFirst(_, _)
SumFirst(sizes, n) == IF n = 0 THEN 0 ELSE SumFirst(sizes, n - 1) + sizes[n]

\* variant: the block sizes themselves are taken as the block boundaries
indices_without_summing(sizes) ==
  [i \in 1..(Len(sizes) + 1) |-> IF i = 1 THEN 0 ELSE sizes[i - 1]]

\* indices = [0] + [sum(sizes[:(i+1)]) for i in range(nb)]
indices(sizes) == [i \in 1..(Len(sizes) + 1) |-> SumFirst(sizes, i - 1)]

\* a start block (name, array); the elements of the array are told apart by
\* the name of the block and their index
StartBlock(name, shape) ==
  [name |-> name,
   array |-> [shape |-> shape, at |-> [idx \in IndexTuples(shape) |-> <<name, idx>>]]]

\* the start_blocks arguments: one to three blocks with names of their own
StartBlockLists ==
  LET B == { StartBlock(n, sh) : n \in BlockNames, sh \in Shapes }
  IN { <<a>> : a \in B }
     \cup { <<a, b>> : a \in { StartBlock(X1, sh) : sh \in Shapes },
                       b \in { StartBlock(X2, sh) : sh \in Shapes } }
     \cup { <<a, b, c>> : a \in { StartBlock(Sol, sh) : sh \in {<<2>>} },
                          b \in { StartBlock(X1, sh) : sh \in Shapes },
                          c \in { StartBlock(X2, sh) : sh \in {<<2, 2>>} } }

\* the second component of a (function, argument names) tuple
Dep(is_list, names) == [is_list |-> is_list, names |-> names]

\* lists of (function, argument names) tuples for the given blocks: one
\* function per block
FunctionLists(time_str, names) ==
  LET nb == Len(names)
      own == [i \in 1..nb |-> Dep(TRUE, <<names[i]>>)]
  IN { own,
       [i \in 1..nb |-> Dep(TRUE, <<time_str, names[i]>>)],
       [i \in 1..nb |-> Dep(TRUE, <<names[nb + 1 - i], time_str, names[1]>>)],
       [i \in 1..nb |-> IF i = nb THEN Dep(TRUE, <<names[1], X9>>) ELSE own[i]],
       [i \in 1..nb |-> IF i = 1 THEN Dep(FALSE, <<names[1]>>) ELSE own[i]] }

\* the functionss arguments: one function list, or two
FunctionListLists(time_str, names) ==
  LET F == FunctionLists(time_str, names)
  IN { <<f>> : f \in F } \cup { <<f, g>> : f \in F, g \in F }

\* the value functions[i][0] returns: the derivative of block i, an array of
\* the shape of block i whose elements record which function of which list
\* computed them and from which arguments
Derivative(k, i, args, shape) ==
  [shape |-> shape,
   at |-> [idx \in IndexTuples(shape) |-> [fn |-> <<k, i>>, args |-> args, idx |-> idx]]]

\* the two assertions of rhs_wrapper
rhs_wrapper(time_str, block_names, functions) ==
  /\ \A i \in 1..Len(functions) : functions[i].is_list
  /\ \A i \in 1..Len(functions) : \A j \in 1..Len(functions[i].names) :
       \/ functions[i].names[j] = time_str
       \/ \E m \in 1..Len(block_names) : block_names[m] = functions[i].names[j]

\* variant: only the first function list is asserted
build_rhss_asserting_first_list(time_str, start_blocks, functionss) ==
  LET block_names == [i \in 1..Len(start_blocks) |-> start_blocks[i].name]
  IN IF rhs_wrapper(time_str, block_names, functionss[1])
     THEN [outcome |-> "ok", rhss |-> functionss]
     ELSE [outcome |-> "AssertionError", rhss |-> <<>>]

\* build_rhss: one rhs per function list, or the AssertionError of the
\* first function list that fails an assertion
build_rhss(time_str, start_blocks, functionss) ==
  LET block_names == [i \in 1..Len(start_blocks) |-> start_blocks[i].name]
  IN IF \A k \in 1..Len(functionss) : rhs_wrapper(time_str, block_names, functionss[k])
     THEN [outcome |-> "ok", rhss |-> functionss]
     ELSE [outcome |-> "AssertionError", rhss |-> <<>>]

\* no BlockIvp has been constructed
NoIvp ==
  [status |-> "none", time_str |-> <<>>, start_blocks |-> <<>>, functionss |-> <<>>,
   index_dict |-> <<>>, start_vec |-> <<>>, rhss |-> <<>>]

\* BlockIvp.__init__; a raised assertion leaves no instance, the arguments
\* of the failed construction are kept for reference
BlockIvp__init__(time_str, start_blocks, functionss) ==
  LET nb == Len(start_blocks)
      sizes == [i \in 1..nb |-> Size(start_blocks[i].array.shape)]
      ind == indices(sizes)
      names == { start_blocks[i].name : i \in 1..nb }
      \* a dict comprehension: the last block of a name wins
      LastOf(n) == CHOOSE i \in 1..nb :
                     /\ start_blocks[i].name = n
                     /\ \A m \in 1..nb : start_blocks[m].name = n => m <= i
      built == build_rhss(time_str, start_blocks, functionss)
  IN IF built.outcome # "ok"
     THEN [NoIvp EXCEPT !.status = built.outcome, !.time_str = time_str,
                        !.start_blocks = start_blocks, !.functionss = functionss]
     ELSE [status |-> "ok", time_str |-> time_str, start_blocks |-> start_blocks,
           functionss |-> functionss,
           index_dict |-> [n \in names |-> <<ind[LastOf(n)], ind[LastOf(n) + 1]>>],
           start_vec |-> concatenate([i \in 1..nb |-> flatten(start_blocks[i].array)]),
           rhss |-> built.rhss]

\* the time t handed to rhs, a number: an array without axes
Scalar(t) == [shape |-> <<>>, at |-> [idx \in { <<>> } |-> << <<"t">>, <<t>> >>]]

\* the result of a call on the BlockIvp
BlockRet(op, k, t, X, name, outcome, result) ==
  [op |-> op, k |-> k, t |-> t, X |-> X, name |-> name,
   outcome |-> outcome, result |-> result]

BlockIdle == BlockRet("idle", 0, 0, <<>>, <<>>, "ok", <<>>)

\* variant: every function is called with the arguments that the dependency
\* list of the last function names
rhs_with_last_dependency_list(k, t, X) ==
  LET functions == ivp.rhss[k]
      nb == Len(ivp.start_blocks)
      block_names == [i \in 1..nb |-> ivp.start_blocks[i].name]
      ind == indices([i \in 1..nb |-> Size(ivp.start_blocks[i].array.shape)])
      Known(n) == n = ivp.time_str \/ \E m \in 1..nb : block_names[m] = n
      LastOf(n) == CHOOSE i \in 1..nb :
                     /\ block_names[i] = n
                     /\ \A m \in 1..nb : block_names[m] = n => m <= i
      blockDict(n) ==
        IF n = ivp.time_str THEN Scalar(t)
        ELSE reshape(slice(X, ind[LastOf(n)], ind[LastOf(n) + 1]),
                     ivp.start_blocks[LastOf(n)].array.shape)
      arg_list(i) == [j \in 1..Len(functions[nb].names) |-> blockDict(functions[nb].names[j])]
  IN IF \E i \in 1..Len(functions) : \E j \in 1..Len(functions[i].names) :
          ~Known(functions[i].names[j])
     THEN BlockRet("rhs", k, t, X, <<>>, "KeyError", <<>>)
     ELSE IF Len(functions) < nb
     THEN BlockRet("rhs", k, t, X, <<>>, "IndexError", <<>>)
     ELSE BlockRet("rhs", k, t, X, <<>>, "ok",
                   concatenate([i \in 1..nb |->
                     flatten(Derivative(k, i, arg_list(i),
                                        ivp.start_blocks[i].array.shape))]))

\* rhs(t, X) of the k-th function list, as rhs_wrapper returns it
rhs(k, t, X) ==
  LET functions == ivp.rhss[k]
      nb == Len(ivp.start_blocks)
      block_names == [i \in 1..nb |-> ivp.start_blocks[i].name]
      ind == indices([i \in 1..nb |-> Size(ivp.start_blocks[i].array.shape)])
      Known(n) == n = ivp.time_str \/ \E m \in 1..nb : block_names[m] = n
      LastOf(n) == CHOOSE i \in 1..nb :
                     /\ block_names[i] = n
                     /\ \A m \in 1..nb : block_names[m] = n => m <= i
      \* blockDict[time_str] = t is assigned last
      blockDict(n) ==
        IF n = ivp.time_str THEN Scalar(t)
        ELSE reshape(slice(X, ind[LastOf(n)], ind[LastOf(n) + 1]),
                     ivp.start_blocks[LastOf(n)].array.shape)
      arg_list(i) == [j \in 1..Len(functions[i].names) |-> blockDict(functions[i].names[j])]
  IN IF \E i \in 1..Len(functions) : \E j \in 1..Len(functions[i].names) :
          ~Known(functions[i].names[j])
     THEN BlockRet("rhs", k, t, X, <<>>, "KeyError", <<>>)
     ELSE IF Len(functions) < nb
     THEN BlockRet("rhs", k, t, X, <<>>, "IndexError", <<>>)
     ELSE BlockRet("rhs", k, t, X, <<>>, "ok",
                   concatenate([i \in 1..nb |->
                     flatten(Derivative(k, i, arg_list(i),
                                        ivp.start_blocks[i].array.shape))]))

\* check_block_exists: the names accepted are the keys of index_dict and
\* the elements of the string time_str
check_block_exists(block_name) ==
  IF block_name \in (DOMAIN ivp.index_dict) \cup Chars(ivp.time_str)
  THEN BlockRet("check_block_exists", 0, 0, <<>>, block_name, "ok", <<>>)
  ELSE BlockRet("check_block_exists", 0, 0, <<>>, block_name, "Exception", <<>>)

\* a state vector of the integrator: its elements are told apart by their
\* position
StateVector(n) == [q \in 1..n |-> << <<"y">>, <<q>> >>]

\* the times at which the integrator evaluates the right-hand side
RhsTimes == {0, 1}

\* the names a caller asks for
AskedNames == BlockNames \cup TimeAliases \cup { X9, <<"i">> }

(* ------------------------------ the state ----------------------------- *)
\* variant: the record carries the length of the time grid as its size
CacheRecordWithGridLength(values, size, grid) ==
  [values |-> values, size |-> Len(grid), times |-> grid]

\* a record as save_state_transition_operator_cache pickles it
CacheRecord(values, size, grid) == [values |-> values, size |-> size, times |-> grid]

\* records left in the store by other model runs
StoredRecords(grids) ==
  { CacheRecord(BuildTable(g, nc, eps), nc, g) :
      g \in grids, nc \in 2..MaxSize, eps \in Noise }

\* the call that was made last
\* the query whose result a call received as its x: none
NoOrigin == [op |-> "none", t |-> 0, s |-> 0, x |-> None, eps |-> {}]

Call(op, t, s, x, size, eps, r, nInv) ==
  [op |-> op, t |-> t, s |-> s, x |-> x, size |-> size, eps |-> eps,
   outcome |-> r.outcome, result |-> r.result, nInt |-> r.nInt,
   tableRead |-> r.tableRead, sizeRead |-> r.sizeRead, path |-> r.path,
   spans |-> r.spans, cell |-> r.cell,
   nInv |-> nInv, origin |-> NoOrigin]

\* no call is under way: the caller has taken the result of the last one
Idle == Call("idle", 0, 0, None, 0, {}, Ret("ok", None, 0, FALSE, FALSE, "none"), 0)

(* ======== SmoothReservoirModel: compartmental matrix and fluxes ======== *)
\* largest decomposition rate of the matrices handed to from_B_u
MaxRate == 2
\* largest entry of the input vectors handed to from_B_u
MaxInput == 1

\* exact (SymPy) numbers: <<p, q>> is p/q in lowest terms with q > 0;
\* q = 0 is the result of a division by zero
RECURSIVE gcd(_, _)
gcd(a, b) == IF b = 0 THEN a ELSE gcd(b, a % b)

Abs(a) == IF a < 0 THEN -a ELSE a

Rational(p, q) ==
  IF q = 0 THEN <<IF p = 0 THEN 0 ELSE 1, 0>>
  ELSE LET g == gcd(Abs(p), Abs(q))
           sgn == IF q < 0 THEN -1 ELSE 1
       IN <<(sgn * p) \div g, (sgn * q) \div g>>

Q(n) == Rational(n, 1)
QAdd(a, b) == Rational(a[1] * b[2] + b[1] * a[2], a[2] * b[2])
QMul(a, b) == Rational(a[1] * b[1], a[2] * b[2])
QDiv(a, b) == Rational(a[1] * b[2], a[2] * b[1])
QNeg(a) == <<-a[1], a[2]>>

RECURSIVE QSum(_, _)
\* sum of the numbers f[k], k in the finite set S
QSum(f, S) ==
  IF S = {} THEN Q(0)
  ELSE LET k == CHOOSE e \in S : TRUE IN QAdd(f[k], QSum(f, S \ {k}))

\* names of the state variables x_0, x_1 of the test system
state_vector == <<"x_0", "x_1">>

\* the term coef * state_vector[pool]; it is zero exactly when coef is
Flux(coef, pool) == [coef |-> coef, pool |-> pool]

\* sum(B[:, pool])
ColumnSum(B, pool) == QSum([i \in Pools |-> B[i][pool]], Pools)

\* SmoothReservoirModel(state_vector, time_symbol, input_fluxes,
\* output_fluxes, internal_fluxes)
SmoothReservoirModel__init__(sv, input_fluxes, output_fluxes, internal_fluxes) ==
  [status |-> "ok", state_vector |-> sv, input_fluxes |-> input_fluxes,
   output_fluxes |-> output_fluxes, internal_fluxes |-> internal_fluxes]

NoModel ==
  [status |-> "none", state_vector |-> <<>>, input_fluxes |-> <<>>,
   output_fluxes |-> <<>>, internal_fluxes |-> <<>>]

\* variant: the internal flux of the pipe is read from the transposed entry
from_B_u_transposed(sv, B, u) ==
  LET outp(pool) == QNeg(ColumnSum(B, pool))
      pipes == {p \in Pools \X Pools : p[1] # p[2]}
  IN SmoothReservoirModel__init__(sv,
       [pool \in {p \in Pools : u[p][1] # 0} |-> u[pool]],
       [pool \in {p \in Pools : outp(p)[1] # 0} |-> Flux(outp(pool), pool)],
       [pipe \in {p \in pipes : B[p[1]][p[2]][1] # 0}
          |-> Flux(B[pipe[1]][pipe[2]], pipe[1])])

\* from_B_u(state_vector, time_symbol, B, u): the fluxes of x' = B x + u;
\* a pipe is the pair <<pool_from, pool_to>>, and a flux that is zero gets
\* no entry
from_B_u(sv, B, u) ==
  LET outp(pool) == QNeg(ColumnSum(B, pool))
      pipes == {p \in Pools \X Pools : p[1] # p[2]}
  IN SmoothReservoirModel__init__(sv,
       [pool \in {p \in Pools : u[p][1] # 0} |-> u[pool]],
       [pool \in {p \in Pools : outp(p)[1] # 0} |-> Flux(outp(pool), pool)],
       [pipe \in {p \in pipes : B[p[2]][p[1]][1] # 0}
          |-> Flux(B[pipe[2]][pipe[1]], pipe[1])])

\* external_inputs: the input fluxes as a vector, zero where there is none
external_inputs(m) ==
  [k \in Pools |-> IF k \in DOMAIN m.input_fluxes THEN m.input_fluxes[k] ELSE Q(0)]

\* flux / C[pool]: the coefficient of a flux that is a multiple of
\* state_vector[pool]
DivByPool(flux, pool) == IF flux.pool = pool THEN flux.coef ELSE Rational(1, 0)

\* xi_T_N_u_representation(factor_out_xi=False): xi = 1, N the diagonal
\* matrix of the decomposition rates, T the transition operator
xi_T_N_u_representation(m) ==
  LET outputs == m.output_fluxes
      internal_fluxes == m.internal_fluxes
      decomp_rate(pool) ==
        LET from_pool == {p \in DOMAIN internal_fluxes : p[1] = pool}
            out == IF pool \in DOMAIN outputs
                   THEN DivByPool(outputs[pool], pool) ELSE Q(0)
        IN QAdd(out, QSum([p \in from_pool |-> DivByPool(internal_fluxes[p], pool)],
                          from_pool))
      N == [i \in Pools |-> [j \in Pools |-> IF i = j THEN decomp_rate(i) ELSE Q(0)]]
      T == [j \in Pools |-> [i \in Pools |->
             IF <<i, j>> \in DOMAIN internal_fluxes
             THEN QDiv(DivByPool(internal_fluxes[<<i, j>>], i), N[i][i])
             ELSE IF i = j THEN Q(-1) ELSE Q(0)]]
  IN [xi |-> Q(1), T |-> T, N |-> N, u |-> external_inputs(m)]

\* the matrix product a * b of exact numbers
QMatMul(a, b) ==
  [i \in Pools |-> [j \in Pools |->
     QSum([k \in Pools |-> QMul(a[i][k], b[k][j])], Pools)]]

\* compartmental_matrix: xi * T * N
compartmental_matrix(m) ==
  LET r == xi_T_N_u_representation(m)
      TN == QMatMul(r.T, r.N)
  IN [i \in Pools |-> [j \in Pools |-> QMul(r.xi, TN[i][j])]]

\* the compartmental matrices with integer entries and rates up to MaxRate:
\* non-positive diagonal, non-negative off-diagonal entries, no column sum
\* above zero
IntMatrices ==
  [Pools -> [Pools -> (-MaxRate)..MaxRate]]

IsCompartmental(B) ==
  /\ \A i \in Pools : B[i][i] <= 0
  /\ \A i, j \in Pools : i # j => B[i][j] >= 0
  /\ \A j \in Pools : ColumnSum([i \in Pools |-> [k \in Pools |-> Q(B[i][k])]], j)[1] <= 0

AsExact(B) == [i \in Pools |-> [j \in Pools |-> Q(B[i][j])]]

CompartmentalMatrices == {AsExact(B) : B \in {M \in IntMatrices : IsCompartmental(M)}}

InputVectors == [Pools -> {Q(n) : n \in 0..MaxInput}]

\* the test system: B = diag(-k_0, -k_1) and the input u = 1 into both pools
u_val == 1
TestB == [i \in Pools |-> [j \in Pools |-> IF i = j THEN Q(-k_val(i)) ELSE Q(0)]]
TestU == [i \in Pools |-> Q(u_val)]

(* =============== SmoothModelRun: the objects of a caller ================ *)
\* largest number of model runs alive at a time
MaxRuns == 2

\* self._external_input_vector_func = None
NoFunc == [set |-> FALSE, cut_off |-> FALSE]

\* a value of func_set: a function of the caller, or the solution function
\* func_maker(pool) made by the linearization of a run
UserFunc == [pool |-> 0, run |-> 0]
SolFunc(pool, run) == [pool |-> pool, run |-> run]

\* dict.update
update(dict, other) ==
  [k \in DOMAIN dict \cup DOMAIN other |-> IF k \in DOMAIN other THEN other[k] ELSE dict[k]]

\* the func_set arguments of the callers: None, an empty dict, a dict with
\* one function
FuncSetArgs == { "None", "empty", "f" }

FuncSetContent(arg) == IF arg = "f" THEN [k \in {"f"} |-> UserFunc] ELSE <<>>

\* parameter_dict of the test system
TestParameters == [k_0 |-> k_0_val, k_1 |-> k_1_val, u |-> u_val]

\* SmoothModelRun.__init__: the attributes of the new instance; func_set is
\* the reference it was given
SmoothModelRun__init__(m, parameter_dict, start_values, ts, func_set) ==
  [model |-> m, parameter_dict |-> parameter_dict, times |-> ts,
   start_values |-> start_values, func_set |-> func_set,
   _external_input_vector_func |-> NoFunc]

\* vec_sol_func(t) of solve_2: the solution vector at t, component by
\* component
vec_sol_func(smr, t) ==
  [pool \in Pools |-> [component |-> pool, t |-> t, start_values |-> smr.start_values]]

\* sol_funcs(): the list of the lambdas made by the loop.  Each lambda
\* refers to the variable i of the call that made it, and i is what the
\* loop left in it when the list is returned
sol_funcs(smr) ==
  [funcs |-> [k \in Pools |-> [free |-> "i"]], i |-> nr_pools]

\* sol_restriction(t) = vec_sol_func(t)[i], for a lambda of the list sf
sol_restriction(sf, k, smr, t) == vec_sol_func(smr, t)[sf.i]

\* the vector of the external input fluxes at t (constant in the test system)
input_fluxes_at(smr, t) == external_inputs(smr.model)

\* the function u stored by external_input_vector_func, called at t
u(f, smr, t) ==
  LET t0 == smr.times[1]
      t_valid == IF f.cut_off THEN (t0 < t /\ t <= smr.times[Len(smr.times)]) ELSE TRUE
  IN IF t_valid THEN input_fluxes_at(smr, t) ELSE [i \in Pools |-> Q(0)]

\* external_input_vector_func(cut_off): the function is made when the
\* attribute is None, and the attribute is returned
external_input_vector_func(smr, cut_off) ==
  IF smr._external_input_vector_func = NoFunc
  THEN [set |-> TRUE, cut_off |-> cut_off]
  ELSE smr._external_input_vector_func

\* sstr(symbolic_sol_funcs[sv]): the func_set key of the solution of sv
sol_key(sv) == IF sv = "x_0" THEN "x_0_sol(t)" ELSE "x_1_sol(t)"

RunRet(op, run, k, t, cut_off, result) ==
  [op |-> op, run |-> run, k |-> k, t |-> t, cut_off |-> cut_off, result |-> result,
   B |-> <<>>, u |-> <<>>]

RunIdle == RunRet("idle", 0, 0, 0, FALSE, <<>>)

(* ------------------------------- state -------------------------------- *)
\* the instance after __init__, for a time grid out of grids
InitOn(grids) ==
  /\ times \in grids
  /\ state_transition_operator_values = None
  /\ cache_size = 0
  /\ attrs = {}
  /\ skewPhiCache = <<>>
  /\ files \in {None} \cup StoredRecords(grids)
  /\ last = Idle
  /\ ivp = NoIvp
  /\ block_call = BlockIdle
  /\ model = NoModel
  /\ func_sets = <<>>
  /\ smrs = <<>>
  /\ run_call = RunIdle

Init == InitOn(Grids)
InitAnyGrid == InitOn(Grids \cup SinglePointGrids)

(* ----------------------------- operations ----------------------------- *)
\* variant: the size check lets the size 1 through
BuildAcceptingSizeOne(size, eps) ==
  /\ last = Idle
  /\ IF size < 1
     THEN /\ last' = Call("build", 0, 0, None, size, eps,
                          Ret("Error", None, 0, FALSE, FALSE, "raise"), 0)
          /\ UNCHANGED <<state_transition_operator_values, cache_size, attrs>>
     ELSE /\ state_transition_operator_values' = BuildTable(times, size, eps)
          /\ cache_size' = size
          /\ attrs' = attrs \cup {"_cache_size"}
          /\ last' = Call("build", 0, 0, None, size, eps,
                          Ret("ok", None, 1, FALSE, FALSE, "built"), 0)
  /\ UNCHANGED <<runVars, ivp, block_call, times, skewPhiCache, files>>

Build(size, eps) ==
  /\ last = Idle
  /\ IF size < 2
     THEN /\ last' = Call("build", 0, 0, None, size, eps,
                          Ret("Error", None, 0, FALSE, FALSE, "raise"), 0)
          /\ UNCHANGED <<state_transition_operator_values, cache_size, attrs>>
     ELSE /\ state_transition_operator_values' = BuildTable(times, size, eps)
          /\ cache_size' = size
          /\ attrs' = attrs \cup {"_cache_size"}
          /\ last' = Call("build", 0, 0, None, size, eps,
                          Ret("ok", None, 1, FALSE, FALSE, "built"), 0)
  /\ UNCHANGED <<runVars, ivp, block_call, times, skewPhiCache, files>>

\* variant: the record is written whether or not there is a cache
SaveOfAnyInstance ==
  /\ last = Idle
  /\ files' = CacheRecord(state_transition_operator_values, cache_size, times)
  /\ last' = Call("save", 0, 0, None, 0, {},
                  Ret("ok", None, 0, TRUE, TRUE, "saved"), 0)
  /\ UNCHANGED <<runVars, ivp, block_call, times, state_transition_operator_values, cache_size, attrs, skewPhiCache>>

Save ==
  /\ last = Idle
  /\ IF "_cache_size" \notin attrs
     THEN /\ last' = Call("save", 0, 0, None, 0, {},
                          Ret("AttributeError", None, 0, FALSE, FALSE, "raise"), 0)
          /\ UNCHANGED files
     ELSE /\ files' = CacheRecord(state_transition_operator_values, cache_size, times)
          /\ last' = Call("save", 0, 0, None, 0, {},
                          Ret("ok", None, 0, TRUE, TRUE, "saved"), 0)
  /\ UNCHANGED <<runVars, ivp, block_call, times, state_transition_operator_values, cache_size, attrs, skewPhiCache>>

Load ==
  /\ last = Idle
  /\ IF files = None
     THEN /\ last' = Call("load", 0, 0, None, 0, {},
                          Ret("FileNotFoundError", None, 0, FALSE, FALSE, "raise"), 0)
          /\ UNCHANGED <<state_transition_operator_values, cache_size, attrs>>
     ELSE IF ~GridsMatch(times, files.times)
     THEN /\ last' = Call("load", 0, 0, None, 0, {},
                          Ret("Error", None, 0, FALSE, FALSE, "raise"), 0)
          /\ UNCHANGED <<state_transition_operator_values, cache_size, attrs>>
     ELSE /\ state_transition_operator_values' = files.values
          /\ cache_size' = files.size
          /\ attrs' = attrs \cup {"_cache_size"}
          /\ last' = Call("load", 0, 0, None, 0, {},
                          Ret("ok", None, 0, FALSE, FALSE, "loaded"), 0)
  /\ UNCHANGED <<runVars, ivp, block_call, times, skewPhiCache, files>>

QueryGrid(t, s, x, eps) ==
  /\ last = Idle
  /\ last' = Call("_state_transition_operator", t, s, x, 0, eps,
                  state_transition_operator(t, s, x, eps), 0)
  /\ UNCHANGED <<runVars, ivp, block_call, times, state_transition_operator_values, cache_size, attrs,
                 skewPhiCache, files>>

QueryDirect(t, s, x, eps) ==
  /\ last = Idle
  /\ last' = Call("direct", t, s, x, 0, eps,
                  state_transition_operator_by_direct_integration(t, s, x, eps), 0)
  /\ UNCHANGED <<runVars, ivp, block_call, times, state_transition_operator_values, cache_size, attrs,
                 skewPhiCache, files>>

QuerySkew(t, s, x) ==
  LET r == state_transition_operator_by_skew_product_system(t, s, x)
  IN /\ last = Idle
     /\ last' = Call("skew", t, s, x, 0, {}, r.ret, r.nInv)
     /\ attrs' = r.attrs
     /\ skewPhiCache' = r.cache
     /\ UNCHANGED <<runVars, ivp, block_call, times, state_transition_operator_values, cache_size, files>>

\* execution is single-threaded and synchronous: the caller takes the result
\* of a call before it makes the next one
Return ==
  /\ last # Idle
  /\ last' = Idle
  /\ UNCHANGED <<runVars, ivp, block_call, times, state_transition_operator_values, cache_size, attrs,
                 skewPhiCache, files>>

\* the caller keeps the vector that a forward query inside the trajectory
\* span returned, to hand it to the next query of the same strategy
Keep ==
  /\ last.op \in {"_state_transition_operator", "direct", "skew"}
  /\ last.outcome = "ok" /\ last.x # None /\ last.origin = NoOrigin
  /\ SeqMin(times) <= last.s /\ last.s <= last.t /\ last.t <= times[Len(times)]
  /\ last' = [Idle EXCEPT !.op = "held", !.t = last.t, !.x = last.result,
                          !.origin = [op |-> last.op, t |-> last.t, s |-> last.s,
                                      x |-> last.x, eps |-> last.eps]]
  /\ UNCHANGED <<runVars, ivp, block_call, times, state_transition_operator_values, cache_size, attrs,
                 skewPhiCache, files>>

\* the kept vector, present at the time last.t, is propagated further to t
ComposeGrid(t, eps) ==
  /\ last.op = "held" /\ last.origin.op = "_state_transition_operator"
  /\ last' = [Call("_state_transition_operator", t, last.t, last.x, 0, eps,
                   state_transition_operator(t, last.t, last.x, eps), 0)
              EXCEPT !.origin = last.origin]
  /\ UNCHANGED <<runVars, ivp, block_call, times, state_transition_operator_values, cache_size, attrs,
                 skewPhiCache, files>>

ComposeDirect(t, eps) ==
  /\ last.op = "held" /\ last.origin.op = "direct"
  /\ last' = [Call("direct", t, last.t, last.x, 0, eps,
                   state_transition_operator_by_direct_integration(t, last.t, last.x, eps), 0)
              EXCEPT !.origin = last.origin]
  /\ UNCHANGED <<runVars, ivp, block_call, times, state_transition_operator_values, cache_size, attrs,
                 skewPhiCache, files>>

ComposeSkew(t) ==
  LET r == state_transition_operator_by_skew_product_system(t, last.t, last.x)
  IN /\ last.op = "held" /\ last.origin.op = "skew"
     /\ last' = [Call("skew", t, last.t, last.x, 0, {}, r.ret, r.nInv)
                 EXCEPT !.origin = last.origin]
     /\ attrs' = r.attrs
     /\ skewPhiCache' = r.cache
     /\ UNCHANGED <<runVars, ivp, block_call, times, state_transition_operator_values, cache_size, files>>

Next ==
  \/ Return
  \/ /\ last = Idle
     /\ \E size \in 0..MaxSize, eps \in Noise : Build(size, eps)
  \/ /\ last = Idle
     /\ Save
  \/ /\ last = Idle
     /\ Load
  \/ /\ last = Idle
     /\ \E t \in QueryTimes, s \in QueryTimes, x \in XS, eps \in Noise :
          QueryGrid(t, s, x, eps)
  \/ /\ last = Idle
     /\ \E t \in QueryTimes, s \in QueryTimes, x \in XS \cup {None}, eps \in Noise :
          QueryDirect(t, s, x, eps)
  \/ /\ last = Idle
     /\ \E s \in QueryTimes, t \in QueryTimes, x \in XS \cup {None} :
          QuerySkew(t, s, x)

Spec == Init /\ [][Next]_vars

\* the same program on any time grid, single-point grids included
SpecAnyGrid == InitAnyGrid /\ [][Next]_vars

\* the cache life cycle with cache sizes up to MaxSize + 1, on a time grid
\* whose span the cells of all these sizes and of their sub-grids divide
LargeGrids == { <<TStart, TEnd * MaxSize * MaxSize>> }

NextLargeCache ==
  \/ Return
  \/ \E size \in 0..(MaxSize + 1), eps \in Noise : Build(size, eps)
  \/ Save
  \/ Load

InitLargeCache == InitOn(LargeGrids)

SpecLargeCache == InitLargeCache /\ [][NextLargeCache]_vars

\* ----- the operations of a BlockIvp -----
Construct(time_str, start_blocks, functionss) ==
  /\ ivp.status = "none" /\ block_call.op = "idle"
  /\ ivp' = BlockIvp__init__(time_str, start_blocks, functionss)
  /\ UNCHANGED <<runVars, block_call, times, state_transition_operator_values, cache_size,
                 attrs, skewPhiCache, files, last>>

\* the integrator evaluates the k-th right-hand side at a state vector
Rhs(k, t, X) ==
  /\ ivp.status = "ok" /\ block_call.op = "idle"
  /\ block_call' = rhs(k, t, X)
  /\ UNCHANGED <<runVars, ivp, times, state_transition_operator_values, cache_size,
                 attrs, skewPhiCache, files, last>>

CheckBlockExists(block_name) ==
  /\ ivp.status = "ok" /\ block_call.op = "idle"
  /\ block_call' = check_block_exists(block_name)
  /\ UNCHANGED <<runVars, ivp, times, state_transition_operator_values, cache_size,
                 attrs, skewPhiCache, files, last>>

BlockReturn ==
  /\ block_call.op # "idle"
  /\ block_call' = BlockIdle
  /\ UNCHANGED <<runVars, ivp, times, state_transition_operator_values, cache_size,
                 attrs, skewPhiCache, files, last>>

NextBlockIvp ==
  \/ \E time_str \in TimeAliases, start_blocks \in StartBlockLists :
       \E functionss \in FunctionListLists(time_str,
                            [i \in 1..Len(start_blocks) |-> start_blocks[i].name]) :
         Construct(time_str, start_blocks, functionss)
  \/ \E k \in 1..Len(ivp.rhss), t \in RhsTimes :
       \E X \in { ivp.start_vec, StateVector(Len(ivp.start_vec)) } : Rhs(k, t, X)
  \/ \E block_name \in AskedNames : CheckBlockExists(block_name)
  \/ BlockReturn

InitBlockIvp == InitOn({<<TStart, TEnd>>}) /\ files = None

SpecBlockIvp == InitBlockIvp /\ [][NextBlockIvp]_vars

\* the program with a caller that feeds results of queries into later queries
NextCompose ==
  \/ Next
  \/ Keep
  \/ \E t \in QueryTimes, eps \in Noise : ComposeGrid(t, eps)
  \/ \E t \in QueryTimes, eps \in Noise : ComposeDirect(t, eps)
  \/ \E t \in QueryTimes : ComposeSkew(t)

\* the store is empty when the instance is constructed
InitCompose == Init /\ files = None

SpecCompose == InitCompose /\ [][NextCompose]_vars

(* ------------- operations on reservoir models and model runs ----------- *)
\* a caller builds the reservoir model from a matrix and an input vector
FromBu(B, inp) ==
  /\ model.status = "none"
  /\ model' = from_B_u(state_vector, B, inp)
  /\ run_call' = [RunRet("from_B_u", 0, 0, 0, FALSE, <<>>) EXCEPT !.B = B, !.u = inp]
  /\ UNCHANGED <<func_sets, smrs, engineVars>>

\* the caller reads compartmental_matrix and external_inputs of the model
CompartmentalMatrix ==
  /\ model.status = "ok" /\ run_call.op = "from_B_u"
  /\ run_call' = [run_call EXCEPT !.op = "compartmental_matrix",
                                  !.result = <<compartmental_matrix(model),
                                               external_inputs(model)>>]
  /\ UNCHANGED <<model, func_sets, smrs, engineVars>>

\* SmoothModelRun(model, parameter_dict, start_values, times, func_set)
NewRun(start_values, arg) ==
  /\ model.status = "ok" /\ Len(smrs) < MaxRuns
  /\ func_sets' = Append(func_sets, FuncSetContent(arg))
  /\ smrs' = Append(smrs, SmoothModelRun__init__(model, TestParameters, start_values,
                                                 times, Len(func_sets) + 1))
  /\ run_call' = RunRet("__init__", Len(smrs) + 1, 0, 0, FALSE, <<>>)
  /\ UNCHANGED <<model, engineVars>>

\* sol_funcs() of a run, and a call of the k-th function of the list at t
SolFuncs(r, k, t) ==
  /\ r \in 1..Len(smrs)
  /\ run_call' = RunRet("sol_funcs", r, k, t, FALSE,
                        sol_restriction(sol_funcs(smrs[r]), k, smrs[r], t))
  /\ UNCHANGED <<model, func_sets, smrs, engineVars>>

\* external_input_vector_func(cut_off) of a run, and a call of the
\* function it returns at t
ExternalInputVectorFunc(r, cut_off, t) ==
  /\ r \in 1..Len(smrs)
  /\ LET f == external_input_vector_func(smrs[r], cut_off)
     IN /\ smrs' = [smrs EXCEPT ![r]._external_input_vector_func = f]
        /\ run_call' = RunRet("external_input_vector_func", r, 0, t, cut_off,
                              u(f, smrs[r], t))
  /\ UNCHANGED <<model, func_sets, engineVars>>

\* linearize() of a run: the solution functions are put into func_set and
\* a run of the linearized model is constructed
Linearize(r) ==
  /\ r \in 1..Len(smrs) /\ Len(smrs) < MaxRuns
  /\ LET self == smrs[r]
         srm == self.model
         sol_dict == [key \in {sol_key(sv) : sv \in {srm.state_vector[p] : p \in Pools}}
                        |-> SolFunc(CHOOSE p \in Pools : sol_key(srm.state_vector[p]) = key, r)]
         \* (xi*T*N).subs(...) and u.subs(...): the factors taken out of N
         \* and T are multiplied back by xi
         linearized_B == compartmental_matrix(srm)
         linearized_u == external_inputs(srm)
         func_set == self.func_set
         linearized_srm == from_B_u(srm.state_vector, linearized_B, linearized_u)
     IN /\ func_sets' = [func_sets EXCEPT ![func_set] = update(@, sol_dict)]
        /\ smrs' = Append(smrs, SmoothModelRun__init__(linearized_srm, self.parameter_dict,
                                                       self.start_values, self.times,
                                                       func_set))
        /\ run_call' = RunRet("linearize", r, 0, 0, FALSE, Len(smrs) + 1)
  /\ UNCHANGED <<model, engineVars>>

NextFromBu ==
  \/ \E B \in CompartmentalMatrices, inp \in InputVectors : FromBu(B, inp)
  \/ CompartmentalMatrix

InitFromBu == InitOn({<<TStart, TEnd>>}) /\ files = None

SpecFromBu == InitFromBu /\ [][NextFromBu]_vars

NextModelRun ==
  \/ FromBu(TestB, TestU)
  \/ \E start_values \in XS, arg \in FuncSetArgs : NewRun(start_values, arg)
  \/ \E r \in 1..MaxRuns, k \in Pools, t \in QueryTimes : SolFuncs(r, k, t)
  \/ \E r \in 1..MaxRuns, cut_off \in BOOLEAN, t \in QueryTimes :
       ExternalInputVectorFunc(r, cut_off, t)
  \/ \E r \in 1..MaxRuns : Linearize(r)

InitModelRun == InitOn({<<TStart, TEnd>>}) /\ files = None

SpecModelRun == InitModelRun /\ [][NextModelRun]_vars

(* ============================ properties ============================== *)
IsQuery == last.op \in {"_state_transition_operator", "direct", "skew"}
GlobalStart == SeqMin(times)
NonNegative(v) == \A i \in Pools : v[i][1] >= 0

\* the closed form diag(exp(-k_0 (t-s)), exp(-k_1 (t-s))) x of the test system
Phi_ref(t, s, x) ==
  [i \in Pools |-> IF x[i][1] = 1 THEN Pos(x[i][2] - k_val(i) * (t - s)) ELSE x[i]]

\* the table holds what an exact integrator builds for the current grid
ExactTable ==
  \/ state_transition_operator_values = None
  \/ state_transition_operator_values = BuildTable(times, cache_size, {})

\* C1: identity law: a query of any strategy with t == s at or after the
\* global start returns x (the identity matrix when x is omitted),
\* dispatches no integration and does not read the grid table
IdentityLaw ==
  (IsQuery /\ last.t = last.s /\ last.s >= GlobalStart)
    => /\ last.outcome = "ok"
       /\ last.result = (IF last.x = None THEN identity ELSE last.x)
       /\ last.nInt = 0
       /\ ~last.tableRead

IdentityLawWitness ==
  /\ last.op = "_state_transition_operator"
  /\ state_transition_operator_values # None
  /\ last.t = last.s /\ last.s >= GlobalStart
  /\ last.result = last.x

\* C2: a failed Phi query leaves the inverse memo, the skew-product ivp
\* object, the grid table and the cache size as they were before the call
FailedQueryLeavesStateUnchanged ==
  [][ (last'.op \in {"_state_transition_operator", "direct", "skew"}
         /\ last'.outcome # "ok")
      => /\ skewPhiCache' = skewPhiCache
         /\ ("_x_phi_ivp" \in attrs') = ("_x_phi_ivp" \in attrs)
         /\ state_transition_operator_values' = state_transition_operator_values
         /\ cache_size' = cache_size ]_vars

\* C3: load raises an Error for every stored record whose time grid is not
\* equal to the time grid of the instance and then leaves table and size
\* alone; it replaces them only when the grids are equal
LoadRejectsEveryOtherGrid ==
  [][ (last'.op = "load" /\ files # None)
      => IF files.times = times
         THEN /\ last'.outcome = "ok"
              /\ state_transition_operator_values' = files.values
              /\ cache_size' = files.size
         ELSE /\ last'.outcome = "Error"
              /\ state_transition_operator_values' = state_transition_operator_values
              /\ cache_size' = cache_size ]_vars

\* C4: build with a size below 2 raises an Error before any integration
\* and leaves table and cache size as they were, built or not
BuildRejectsSmallSize ==
  [][ (last'.op = "build" /\ last'.size < 2)
      => /\ last'.outcome = "Error"
         /\ last'.nInt = 0
         /\ state_transition_operator_values' = state_transition_operator_values
         /\ cache_size' = cache_size
         /\ attrs' = attrs ]_vars

BuildRejectsSmallSizeWitness ==
  /\ last.op = "build" /\ last.size < 2 /\ last.outcome = "Error"
  /\ state_transition_operator_values # None
  /\ cache_size >= 2

\* C5: save does not change the cache state and stores table, size and
\* grid; a load on an instance with the saved grid restores that table and
\* size, which are a table and a size that a build on this instance yields
SaveLoadRoundTrip ==
  /\ [][ (last'.op = "save" /\ last'.outcome = "ok")
         => /\ files'.values = state_transition_operator_values
            /\ files'.size = cache_size
            /\ files'.times = times
            /\ state_transition_operator_values' = state_transition_operator_values
            /\ cache_size' = cache_size ]_vars
  /\ []( (last.op = "load" /\ last.outcome = "ok" /\ files.times = times)
         => /\ state_transition_operator_values = files.values
            /\ cache_size = files.size
            /\ \E nc \in 2..MaxSize, eps \in Noise :
                 /\ cache_size = nc
                 /\ state_transition_operator_values = BuildTable(times, nc, eps) )

SaveLoadRoundTripWitness ==
  /\ last.op = "load" /\ last.outcome = "ok"
  /\ files.times = times
  /\ \E eps \in Noise : files = CacheRecord(BuildTable(times, MaxSize, eps), MaxSize, times)
  /\ state_transition_operator_values = files.values

DomainErrorsRejected ==
  (IsQuery /\ (last.t < GlobalStart \/ last.s < GlobalStart))
    => (last.outcome = "Error" /\ last.nInt = 0)

\* C8: a query with global start <= t < s is not rejected by any strategy
\* and returns the backward propagation Phi(t, s) x
NonCausalQueriesPermitted ==
  (IsQuery /\ GlobalStart <= last.t /\ last.t < last.s)
    => /\ last.outcome = "ok"
       /\ (last.eps = {} /\ last.x # None /\ ExactTable)
            => last.result = Phi_ref(last.t, last.s, last.x)

\* C9: for nonnegative x and t >= s >= global start the returned vector is
\* componentwise >= 0 on every return path of every strategy
Nonnegativity ==
  (IsQuery /\ last.outcome = "ok" /\ last.x # None
     /\ GlobalStart <= last.s /\ last.s <= last.t)
    => NonNegative(last.result)

\* C10: with an exact integrator, for t >= s >= global start in the
\* trajectory span and nonnegative x, all three strategies return
\* diag(exp(-k_0 (t-s)), exp(-k_1 (t-s))) x
CrossStrategyAgreement ==
  (IsQuery /\ last.x # None /\ last.eps = {}
     /\ GlobalStart <= last.s /\ last.s <= last.t /\ last.t <= times[Len(times)]
     /\ ExactTable)
    => /\ last.outcome = "ok"
       /\ last.result = Phi_ref(last.t, last.s, last.x)

CrossStrategyAgreementWitness ==
  /\ last.op = "_state_transition_operator" /\ last.path = "grid"
  /\ last.eps = {} /\ ExactTable
  /\ cache_size = MaxSize
  /\ GlobalStart < last.s /\ last.s < last.t /\ last.t <= times[Len(times)]
  /\ last.nInt = 2
  /\ last.result = Phi_ref(last.t, last.s, last.x)

\* C11: a skew-product query with global start <= t < s inside the span
\* returns Phi(t, s), the inverse of the forward propagator Phi(s, t): the
\* matrix when x is omitted, Phi(t, s) x when x is given
SkewBackwardReturnsInverse ==
  (last.op = "skew" /\ GlobalStart <= last.t /\ last.t < last.s
     /\ last.s <= times[Len(times)])
    => /\ last.outcome = "ok"
       /\ last.result = Phi_ref(last.t, last.s,
                                IF last.x = None THEN identity ELSE last.x)

\* the result of the single query propagate(t, r, x) of the strategy op
SingleQuery(op, t, r, x) ==
  IF op = "_state_transition_operator" THEN state_transition_operator(t, r, x, {}).result
  ELSE IF op = "direct" THEN state_transition_operator_by_direct_integration(t, r, x, {}).result
  ELSE state_transition_operator_by_skew_product_system(t, r, x).ret.result

\* C12: semigroup law: with an exact integrator, for r <= s <= t in the span,
\* a query from s to t on the vector that the same strategy returned for
\* the query from r to s on x returns what the single query from r to t on
\* x returns
SemigroupLaw ==
  (IsQuery /\ last.origin # NoOrigin /\ last.origin.op = last.op
     /\ last.eps = {} /\ last.origin.eps = {} /\ ExactTable
     /\ GlobalStart <= last.origin.s /\ last.origin.s <= last.s
     /\ last.s <= last.t /\ last.t <= times[Len(times)])
    => /\ last.outcome = "ok"
       /\ last.x = SingleQuery(last.op, last.s, last.origin.s, last.origin.x)
       /\ last.result = SingleQuery(last.op, last.t, last.origin.s, last.origin.x)

SemigroupLawWitness ==
  /\ last.op = "_state_transition_operator" /\ last.origin.op = last.op
  /\ last.eps = {} /\ last.origin.eps = {} /\ ExactTable
  /\ cache_size = MaxSize
  /\ GlobalStart <= last.origin.s /\ last.origin.s < last.s /\ last.s < last.t
  /\ last.t <= times[Len(times)]
  /\ last.path = "grid" /\ last.nInt = 2
  /\ last.result = Phi_ref(last.t, last.origin.s, last.origin.x)

\* C13: a vector query of the skew-product strategy with t > s > global
\* start computes no explicit inverse and leaves the key set of the inverse
\* memo as it was
VectorQueryKeepsMemoKeys ==
  [][ (last'.op = "skew" /\ last'.x # None
         /\ last'.t > last'.s /\ last'.s > GlobalStart)
      => /\ DOMAIN skewPhiCache' = DOMAIN skewPhiCache
         /\ last'.nInv = 0 ]_vars

\* the key time under which a matrix query looks its inverse up
InverseKey(c) == IF c.s > c.t THEN c.t ELSE c.s

\* a skew-product matrix query that needs an explicit inverse
NeedsInverse(c) ==
  /\ c.op = "skew" /\ c.x = None /\ c.t # c.s
  /\ GlobalStart <= c.t /\ c.t <= times[Len(times)]
  /\ GlobalStart <= c.s /\ c.s <= times[Len(times)]
  /\ (c.s > c.t \/ c.s # GlobalStart)

\* C14: memo entries stay; a matrix query inverts only when its key time is
\* not in the memo and then stores the inverse under that key; with the key
\* in the memo it inverts nothing and uses the stored matrix
InverseAtMostOncePerKey ==
  [][ /\ \A k \in DOMAIN skewPhiCache :
           k \in DOMAIN skewPhiCache' /\ skewPhiCache'[k] = skewPhiCache[k]
      /\ NeedsInverse(last')
           => IF InverseKey(last') \in DOMAIN skewPhiCache
              THEN /\ last'.nInv = 0
                   /\ skewPhiCache' = skewPhiCache
                   /\ last'.outcome = "ok"
                        => last'.result = matmul(Phi_t0_mat(last'.t),
                                                 skewPhiCache[InverseKey(last')])
              ELSE /\ last'.nInv = 1
                   /\ InverseKey(last') \in DOMAIN skewPhiCache'
                   /\ skewPhiCache'[InverseKey(last')] = inv(Phi_t0_mat(InverseKey(last'))) ]_vars

InverseAtMostOncePerKeyWitness ==
  /\ last.op = "skew" /\ last.x = None /\ last.path = "inverse"
  /\ last.outcome = "ok" /\ last.nInv = 0
  /\ last.s \in DOMAIN skewPhiCache

\* C15: after a build with an exact integrator, table[i, j] holds, for every
\* grid index i and every later grid index j of linspace(t_min, t_max, nc),
\* the canonical basis vectors propagated from grid point g_i to grid point
\* g_j
TableOnSingleGrid ==
  (last.op = "build" /\ last.outcome = "ok" /\ last.eps = {})
    => LET nc == cache_size
           g(m) == linspace(times[1], times[Len(times)], nc, m)
       IN \A i \in 0..(nc - 1) : \A j \in (i + 1)..(nc - 1) :
            state_transition_operator_values[i + 1][j + 1]
              = Phi_ref(g(j), g(i), identity)

\* the first point of linspace(t_min, t_max, nc) at or after s
FirstGridPointFrom(s) ==
  LET pts == {linspace(times[1], times[Len(times)], cache_size, m) : m \in 0..(cache_size - 1)}
  IN CHOOSE g \in pts : g >= s /\ \A h \in pts : h >= s => g <= h

\* C16: with a built cache and t_min <= s < t <= t_max a grid query
\* integrates at most twice and reads the table at most once: when t is
\* not after the first grid point tm1 at or after s it integrates once over
\* [s, t] and reads no entry; otherwise it integrates over [s, tm1], shorter
\* than a grid cell, reads one entry, and integrates over [tm2, t], shorter
\* than one step (t_max - tm1)/(nc - 1) of the grid of the lookup
GridQueryIntegrations ==
  (last.op = "_state_transition_operator" /\ state_transition_operator_values # None
     /\ times[1] <= last.s /\ last.s < last.t /\ last.t <= times[Len(times)])
    => LET t_min == times[1]
           t_max == times[Len(times)]
           nc == cache_size
           tm1 == FirstGridPointFrom(last.s)
           tm2 == last.cell.tm2
           head == IF last.s = tm1 THEN <<>> ELSE << <<last.s, tm1>> >>
           tail == IF tm2 = last.t THEN <<>> ELSE << <<tm2, last.t>> >>
       IN /\ last.outcome = "ok"
          /\ last.nInt = Len(last.spans) /\ last.nInt <= 2
          /\ IF last.t <= tm1
             THEN last.spans = << <<last.s, last.t>> >> /\ ~last.tableRead
             ELSE /\ last.tableRead
                  /\ last.cell.tm1 = tm1
                  /\ (tm1 - last.s) * (nc - 1) < t_max - t_min
                  /\ last.cell.step_size * (nc - 1) = t_max - tm1
                  /\ tm2 = tm1 + last.cell.tm2_ind * last.cell.step_size
                  /\ tm2 <= last.t /\ last.t - tm2 < last.cell.step_size
                  /\ last.spans = head \o tail

GridQueryIntegrationsWitness ==
  /\ last.op = "_state_transition_operator" /\ last.path = "grid"
  /\ cache_size = MaxSize
  /\ last.spans = << <<last.s, last.cell.tm1>>, <<last.cell.tm2, last.t>> >>
  /\ times[1] < last.s /\ last.s < last.cell.tm1
  /\ last.cell.tm1 < last.cell.tm2 /\ last.cell.tm2 < last.t
  /\ last.t < times[Len(times)]

(* ----------------------- properties of BlockIvp ----------------------- *)
\* the names of the declared blocks, their shapes and sizes, in order
DeclaredNames == { ivp.start_blocks[i].name : i \in 1..Len(ivp.start_blocks) }
ShapeOf(i) == ivp.start_blocks[i].array.shape
SizeOf(i) == Size(ShapeOf(i))

\* some dependency list is no list or names something that is neither a
\* declared block nor the time alias
BadDependencies ==
  \E k \in 1..Len(ivp.functionss) : \E i \in 1..Len(ivp.functionss[k]) :
    \/ ~ivp.functionss[k][i].is_list
    \/ \E j \in 1..Len(ivp.functionss[k][i].names) :
         ivp.functionss[k][i].names[j] \notin DeclaredNames \cup {ivp.time_str}

\* C17: a construction with a bad dependency in any of the function lists
\* raises and returns no right-hand side; a right-hand side that was
\* returned does not fail on a name when it is evaluated
FailFastOnBadDependencies ==
  /\ (ivp.status # "none" /\ BadDependencies)
       => (ivp.status = "AssertionError" /\ ivp.rhss = <<>>)
  /\ block_call.op = "rhs" => block_call.outcome = "ok"

FailFastOnBadDependenciesWitness ==
  /\ ivp.status = "AssertionError"
  /\ Len(ivp.functionss) = 2
  /\ \A i \in 1..Len(ivp.functionss[1]) :
       /\ ivp.functionss[1][i].is_list
       /\ \A j \in 1..Len(ivp.functionss[1][i].names) :
            ivp.functionss[1][i].names[j] \in DeclaredNames \cup {ivp.time_str}
  /\ \E i \in 1..Len(ivp.functionss[2]) : \E j \in 1..Len(ivp.functionss[2][i].names) :
       ivp.functionss[2][i].names[j] = X9

\* C18: rhs(t, X) of the k-th function list returns a vector as long as X
\* whose slice for block i is the flattened value of the i-th function,
\* called with the values its dependency list names, in the listed order:
\* t for the time alias, and for a block its slice of X in its declared
\* shape
RhsComposition ==
  (block_call.op = "rhs")
    => LET nb == Len(ivp.start_blocks)
           k == block_call.k
           X == block_call.X
           off(i) == SumFirst([m \in 1..nb |-> SizeOf(m)], i - 1)
           BlockOf(n) == CHOOSE m \in 1..nb : ivp.start_blocks[m].name = n
           ValueOf(n) ==
             IF n = ivp.time_str THEN Scalar(block_call.t)
             ELSE [shape |-> ShapeOf(BlockOf(n)),
                   at |-> [idx \in IndexTuples(ShapeOf(BlockOf(n))) |->
                             X[off(BlockOf(n)) + ravel(idx, ShapeOf(BlockOf(n))) + 1]]]
           deps(i) == ivp.functionss[k][i].names
           args(i) == [j \in 1..Len(deps(i)) |-> ValueOf(deps(i)[j])]
       IN /\ block_call.outcome = "ok"
          /\ Len(block_call.result) = Len(X)
          /\ \A i \in 1..nb : \A idx \in IndexTuples(ShapeOf(i)) :
               block_call.result[off(i) + ravel(idx, ShapeOf(i)) + 1]
                 = [fn |-> <<k, i>>, args |-> args(i), idx |-> idx]

RhsCompositionWitness ==
  /\ block_call.op = "rhs" /\ block_call.outcome = "ok"
  /\ Len(ivp.start_blocks) = 3 /\ block_call.k = 2
  /\ block_call.X = StateVector(Len(ivp.start_vec))
  /\ ivp.functionss[2][1].names = <<X2, ivp.time_str, Sol>>
  /\ ShapeOf(2) = <<3, 1>>

\* C19: the entries of index_dict, in declaration order, start at 0, are as
\* long as their blocks, follow each other without gap and end at the
\* length of the flat start vector; the slice of the start vector under
\* index_dict[name], reshaped to the declared shape, is the start array
FlattenRoundTrip ==
  (ivp.status = "ok")
    => LET nb == Len(ivp.start_blocks)
           lower(i) == ivp.index_dict[ivp.start_blocks[i].name][1]
           upper(i) == ivp.index_dict[ivp.start_blocks[i].name][2]
       IN /\ DOMAIN ivp.index_dict = DeclaredNames
          /\ lower(1) = 0
          /\ upper(nb) = Len(ivp.start_vec)
          /\ \A i \in 1..nb :
               /\ upper(i) = lower(i) + SizeOf(i)
               /\ i < nb => lower(i + 1) = upper(i)
               /\ reshape(slice(ivp.start_vec, lower(i), upper(i)), ShapeOf(i))
                    = ivp.start_blocks[i].array

FlattenRoundTripWitness ==
  /\ ivp.status = "ok" /\ Len(ivp.start_blocks) = 3
  /\ ShapeOf(2) = <<3, 1>> /\ ShapeOf(3) = <<2, 2>>
  /\ ivp.index_dict[X2] = <<5, 9>>
  /\ ivp.start_vec[8] = <<X2, <<1, 0>> >>

\* C20: check_block_exists(name) raises exactly when name is neither the
\* name of a declared block nor the time alias
CheckBlockExistsRaisesIffUndeclared ==
  (block_call.op = "check_block_exists")
    => ((block_call.outcome = "Exception")
          <=> (block_call.name \notin DeclaredNames /\ block_call.name # ivp.time_str))

\* C23: the inverse memo only grows: every key stays, and the matrix stored
\* under a key stays the same
MemoNeverEvicts ==
  [][ /\ DOMAIN skewPhiCache \subseteq DOMAIN skewPhiCache'
      /\ \A k \in DOMAIN skewPhiCache : skewPhiCache'[k] = skewPhiCache[k] ]_vars

MemoNeverEvictsWitness ==
  /\ last.op = "skew" /\ last.nInv = 1
  /\ Cardinality(DOMAIN skewPhiCache) >= 3

\* C24: the x/Phi ivp object is constructed by the first skew-product query
\* with s # t that passes the argument check, and by no other call: once
\* the object exists it stays and no query constructs another one
IvpSetUpOnce ==
  [][ /\ "_x_phi_ivp" \in attrs => "_x_phi_ivp" \in attrs'
      /\ last'.op = "skew"
           => IF last'.t # last'.s /\ last'.t >= GlobalStart /\ last'.s >= GlobalStart
              THEN /\ "_x_phi_ivp" \in attrs'
                   /\ last'.nInt = (IF "_x_phi_ivp" \in attrs THEN 0 ELSE 1)
              ELSE /\ last'.nInt = 0
                   /\ ("_x_phi_ivp" \in attrs') = ("_x_phi_ivp" \in attrs)
      /\ last'.op # "skew"
           => ("_x_phi_ivp" \in attrs') = ("_x_phi_ivp" \in attrs) ]_vars

IvpSetUpOnceWitness ==
  /\ last.op = "skew" /\ last.outcome = "ok" /\ last.t # last.s
  /\ last.nInt = 0 /\ "_x_phi_ivp" \in attrs
  /\ skewPhiCache # <<>>

\* C25: a query that reads table[tm1_ind, tm2_ind] takes the entry to end
\* at tm2 = tm1 + tm2_ind (t_max - tm1)/(nc - 1), which is the point
\* tm2_ind of linspace(cached_times[tm1_ind], t_max, nc) where build stored
\* it, with tm1 <= tm2 <= t; with an exact integrator the entry is
\* Phi(tm2, tm1) and the result Phi(t, s) x
BuildAndQueryAgree ==
  (last.op = "_state_transition_operator" /\ last.tableRead)
    => LET t_min == times[1]
           t_max == times[Len(times)]
           nc == cache_size
           c == last.cell
       IN /\ c.tm1 = linspace(t_min, t_max, nc, c.tm1_ind)
          /\ c.tm2 = linspace(c.tm1, t_max, nc, c.tm2_ind)
          /\ c.tm1 <= c.tm2 /\ c.tm2 <= last.t
          /\ ExactTable
               => state_transition_operator_values[c.tm1_ind + 1][c.tm2_ind + 1]
                    = Phi_ref(c.tm2, c.tm1, identity)
          /\ (ExactTable /\ last.eps = {})
               => last.result = Phi_ref(last.t, c.tm2,
                                   Phi_ref(c.tm2, c.tm1,
                                     Phi_ref(c.tm1, last.s, last.x)))

BuildAndQueryAgreeWitness ==
  /\ last.op = "_state_transition_operator" /\ last.tableRead
  /\ ExactTable /\ last.eps = {} /\ cache_size = MaxSize
  /\ last.cell.tm1_ind >= 1 /\ last.cell.tm2_ind >= 1
  /\ last.s < last.cell.tm1 /\ last.cell.tm2 < last.t

\* C26: with a built cache, t_min <= s <= t_max and t > s, the index into
\* cached_times is in 0..nc-1, and when the table is read its row index is
\* in 0..nc-2 and its column index in 0..nc-1: no index is out of range
\* and the last row, left at zero by build, is not read
GridIndexSafety ==
  (last.op = "_state_transition_operator" /\ state_transition_operator_values # None
     /\ times[1] <= last.s /\ last.s <= times[Len(times)] /\ last.t > last.s)
    => /\ last.outcome = "ok"
       /\ 0 <= last.cell.tm1_ind /\ last.cell.tm1_ind <= cache_size - 1
       /\ last.tableRead
            => /\ last.cell.tm1_ind <= cache_size - 2
               /\ 0 <= last.cell.tm2_ind /\ last.cell.tm2_ind <= cache_size - 1

GridIndexSafetyWitness ==
  /\ last.op = "_state_transition_operator" /\ last.tableRead
  /\ cache_size = MaxSize
  /\ last.cell.tm1_ind = cache_size - 2 /\ last.cell.tm2_ind = cache_size - 1
  /\ times[1] < last.s /\ last.s < last.cell.tm1 /\ last.t > last.s

\* C27: every entry of the inverse memo, under its key time k, is the
\* inverse of Phi(k, t0)
MemoHoldsInverses ==
  \A k \in DOMAIN skewPhiCache : skewPhiCache[k] = inv(Phi_t0_mat(k))

MemoHoldsInversesWitness ==
  /\ GlobalStart \in DOMAIN skewPhiCache
  /\ last.op = "skew" /\ last.path = "inverse" /\ last.nInv = 1
  /\ last.s > GlobalStart /\ last.s \in DOMAIN skewPhiCache
  /\ skewPhiCache[last.s] = Phi_ref(GlobalStart, last.s, identity)

\* C28: whenever the table is not None the cache size is defined and is
\* the number of rows and of columns of the table; save writes no record
\* while the table is None; and a table that is not None is never set back
\* to None
CacheStateInvariant ==
  /\ []( state_transition_operator_values # None
           => /\ "_cache_size" \in attrs
              /\ Len(state_transition_operator_values) = cache_size
              /\ \A r \in 1..cache_size :
                   Len(state_transition_operator_values[r]) = cache_size )
  /\ [][ /\ (last'.op = "save" /\ state_transition_operator_values = None)
             => (last'.outcome # "ok" /\ files' = files)
         /\ state_transition_operator_values # None
             => state_transition_operator_values' # None ]_vars

CacheStateInvariantWitness ==
  /\ last.op = "load" /\ last.outcome = "Error"
  /\ state_transition_operator_values # None
  /\ cache_size = MaxSize /\ files.size # cache_size

\* C21: the k-th function of the list sol_funcs() returns, called at t,
\* component k of the solution vector at t
SolFuncsBoundToOwnIndex ==
  (run_call.op = "sol_funcs")
    => run_call.result = vec_sol_func(smrs[run_call.run], run_call.t)[run_call.k]

\* C22: from_B_u(x, t, B, u) of a compartmental matrix B gives the input
\* flux u_i into pool i, the output flux -(sum of column j of B) x_j of
\* pool j and the internal flux B[i,j] x_j from pool j to pool i, with no
\* entry for a flux that is zero; compartmental_matrix and external_inputs
\* of the model are B and u again
MatrixFluxRoundTrip ==
  (run_call.op \in {"from_B_u", "compartmental_matrix"})
    => LET B == run_call.B
           inp == run_call.u
           out(j) == QNeg(ColumnSum(B, j))
       IN /\ \A i \in Pools :
               IF inp[i] = Q(0) THEN i \notin DOMAIN model.input_fluxes
               ELSE i \in DOMAIN model.input_fluxes /\ model.input_fluxes[i] = inp[i]
          /\ \A j \in Pools :
               IF out(j) = Q(0) THEN j \notin DOMAIN model.output_fluxes
               ELSE /\ j \in DOMAIN model.output_fluxes
                    /\ model.output_fluxes[j] = Flux(out(j), j)
          /\ \A i, j \in Pools :
               IF i = j \/ B[i][j] = Q(0) THEN <<j, i>> \notin DOMAIN model.internal_fluxes
               ELSE /\ <<j, i>> \in DOMAIN model.internal_fluxes
                    /\ model.internal_fluxes[<<j, i>>] = Flux(B[i][j], j)
          /\ run_call.op = "compartmental_matrix" => run_call.result = <<B, inp>>

MatrixFluxRoundTripWitness ==
  /\ run_call.op = "compartmental_matrix"
  /\ Cardinality(DOMAIN model.internal_fluxes) = 2
  /\ Cardinality(DOMAIN model.output_fluxes) = 1
  /\ Cardinality(DOMAIN model.input_fluxes) = 1
  /\ run_call.B[1][2] # run_call.B[2][1]

\* C29: the function returned by external_input_vector_func(cut_off=True)
\* gives the zero vector at every t <= t0 and every t > t_max, and the one
\* returned by external_input_vector_func(cut_off=False) gives the input
\* vector at every t, whatever the earlier calls on the instance were
ExternalInputHonoursCutOff ==
  (run_call.op = "external_input_vector_func")
    => LET smr == smrs[run_call.run]
           t == run_call.t
       IN /\ (run_call.cut_off /\ (t <= smr.times[1] \/ t > smr.times[Len(smr.times)]))
               => run_call.result = [i \in Pools |-> Q(0)]
          /\ ~run_call.cut_off => run_call.result = input_fluxes_at(smr, t)

\* C30: linearize() leaves func_set, parameter_dict, start_values and times
\* of the run it is called on as they were, and the func_set of the run it
\* returns is another dictionary than that of the original
LinearizeLeavesOriginalUnchanged ==
  [][ (run_call'.op = "linearize" /\ smrs' # smrs)
        => LET r == run_call'.run
               linearized == run_call'.result
           IN /\ func_sets'[smrs[r].func_set] = func_sets[smrs[r].func_set]
              /\ smrs'[r] = smrs[r]
              /\ smrs'[linearized].func_set # smrs'[r].func_set ]_vars

====
